---- MODULE Spec2Model ----
(***************************************************************************)
(* Model of the tide app: the TideBackground component (primary water      *)
(* level channel, four wave loops, bottom-edge wobble, reduced motion) and *)
(* the HomeScreen controller (station, tide reading, test tide level).     *)
(*                                                                         *)
(* Fixed point: channel values are held in thousandths (a water level of   *)
(* 50 is 50000, a wave channel at 1 is 1000), times are in milliseconds,   *)
(* and screen positions are kept as an integer numerator over a fixed      *)
(* denominator, so that no rounding enters a projection.                   *)
(***************************************************************************)
EXTENDS Integers, Sequences, FiniteSets, TLC

\* ------------------------------------------------------------------ bounds
FrameMs == 1000
MaxTicks == 9
MaxLevelSets == 2
ClockStepMinutes == 150
MaxClockSteps == 1
MaxQueryLen == 3
MaxBlurTimers == 2

\* minutes of the day at which HomeScreen may be opened
StartClocks == {360, 1110}

\* tide levels offered to the component, in and out of the documented 0..100
Levels == {-20, 0, 10, 20, 50, 100, 130}
\* window heights (Dimensions.get('window').height)
Heights == {200, 844}
\* characters typed into the station search
QueryChars == {" ", "a", "C", "m", "z"}

\* ------------------------------------------------------- program constants
WaterDurationMs == 2000
Wave1DurationMs == 8000
Wave2DurationMs == 10000
Wave3DurationMs == 12000
Wave4DurationMs == 14000
BottomEdgeDurationMs == 3000
LowTideThreshold == 20

VARIABLES
  mounted,                \* the TideBackground instance is in the tree
  tideLevel,              \* the tideLevel prop of the last render
  isReducedMotionEnabled, \* useState(false)
  a11yQuery,              \* AccessibilityInfo.isReduceMotionEnabled() promise
  waterHeightAnim,        \* Animated.Value of the water level, in thousandths
  waterTimings,           \* Animated.timing runs writing waterHeightAnim
  animValue,              \* wave1Anim..wave4Anim, bottomEdgeAnim, thousandths
  loopState,              \* the Animated.loop driving each decorative channel
  ticks,                  \* animation frames delivered so far
  levelSets,              \* renders with a tideLevel prop delivered so far
  initialTideLevel,       \* the tideLevel of the first render
  currentStation,         \* HomeScreen: id of the current station
  tideData,               \* HomeScreen: the current tide reading
  testTideLevel,          \* HomeScreen: text of the test tide level input
  useTestTide,            \* HomeScreen: the test override flag
  stationEffectPending,   \* HomeScreen: the [currentStation] effect is due
  clock,                  \* wall clock, minute of the day
  clockSteps,             \* clock advances so far
  stations,               \* StationSearch: the stations prop
  searchQuery,            \* StationSearch: useState(''), as characters
  isSearching,            \* StationSearch: useState(false)
  inputFocused,           \* StationSearch: the TextInput has the focus
  blurTimers,             \* StationSearch: setTimeout callbacks of onBlur due
  last                    \* the last operation, for stating what acted

vars == <<mounted, tideLevel, isReducedMotionEnabled, a11yQuery,
          waterHeightAnim, waterTimings, animValue, loopState,
          ticks, levelSets, initialTideLevel, currentStation, tideData,
          testTideLevel, useTestTide, stationEffectPending, clock, clockSteps,
          stations, searchQuery, isSearching, inputFocused, blurTimers, last>>

bgVars == <<mounted, tideLevel, isReducedMotionEnabled, a11yQuery,
            waterHeightAnim, waterTimings, animValue, loopState,
            ticks, levelSets, initialTideLevel>>

searchVars == <<stations, searchQuery, isSearching, inputFocused, blurTimers>>

homeVars == <<currentStation, tideData, testTideLevel, useTestTide,
              stationEffectPending, clock, clockSteps, searchVars>>

DecorChannels ==
  {"wave1Anim", "wave2Anim", "wave3Anim", "wave4Anim", "bottomEdgeAnim"}
WaveChannels == {"wave1Anim", "wave2Anim", "wave3Anim", "wave4Anim"}

\* ---------------------------------------------------------------- easing
\* Easing.inOut(Easing.ease) on a progress p in thousandths.  The cubic
\* bezier of Easing.ease is replaced by a quadratic of the same shape; the
\* end points and the midpoint are those of the library curve (0, 1/2, 1).
EaseInOut(p) ==
  IF 2 * p < 1000
    THEN (2 * p * p) \div 1000
    ELSE 1000 - (2 * (1000 - p) * (1000 - p)) \div 1000

\* value written by an Animated.timing from `from` to `to` after `elapsed` ms
TimingValue(from, to, elapsed, duration) ==
  IF elapsed >= duration
    THEN from + (to - from)
    ELSE from + (EaseInOut((elapsed * 1000) \div duration) * (to - from)) \div 1000

\* the legs of each Animated.sequence inside its Animated.loop
LoopLegs(ch) ==
  CASE ch = "wave1Anim" -> << [toValue |-> 1000, duration |-> Wave1DurationMs],
                              [toValue |-> 0,    duration |-> Wave1DurationMs] >>
    [] ch = "wave2Anim" -> << [toValue |-> 1000, duration |-> Wave2DurationMs],
                              [toValue |-> 0,    duration |-> Wave2DurationMs] >>
    [] ch = "wave3Anim" -> << [toValue |-> 1000, duration |-> Wave3DurationMs],
                              [toValue |-> 0,    duration |-> Wave3DurationMs] >>
    [] ch = "wave4Anim" -> << [toValue |-> 1000, duration |-> Wave4DurationMs],
                              [toValue |-> 0,    duration |-> Wave4DurationMs] >>
    [] ch = "bottomEdgeAnim" ->
         << [toValue |-> 1000,  duration |-> BottomEdgeDurationMs],
            [toValue |-> -1000, duration |-> BottomEdgeDurationMs],
            [toValue |-> 0,     duration |-> BottomEdgeDurationMs] >>

\* --------------------------------------------------- TideBackground: render
\* actualWaterHeight in thousandths of a pixel:
\* SCREEN_HEIGHT * (0.2 + (tideLevel / 100) * 0.8) = H * (200 + 8 * L) / 1000
actualWaterHeightOfChannel(H, L) == H * (200 + (8 * waterHeightAnim) \div 1000)

actualWaterHeight(H, L) == H * (200 + 8 * L)

\* wave1MaxTranslation in 1/100000 pixel (actualWaterHeight times a percentage);
\* negative is upward
wave1MaxTranslationInclusive(H, L) ==
  IF L <= LowTideThreshold
    THEN -(actualWaterHeight(H, L) * 50)
    ELSE -(actualWaterHeight(H, L) * 15)

wave1MaxTranslationAlwaysHalf(H, L) == -(actualWaterHeight(H, L) * 50)

wave1MaxTranslation(H, L) ==
  IF L < LowTideThreshold
    THEN -(actualWaterHeight(H, L) * 50)
    ELSE -(actualWaterHeight(H, L) * 15)

\* outputRange[1] of wave2TranslateY, wave3TranslateY, wave4TranslateY
waveMaxTranslation(ch, H, L) ==
  CASE ch = "wave1Anim" -> wave1MaxTranslation(H, L)
    [] ch = "wave2Anim" -> -(actualWaterHeight(H, L) * 40)
    [] ch = "wave3Anim" -> -(actualWaterHeight(H, L) * 35)
    [] ch = "wave4Anim" -> -(actualWaterHeight(H, L) * 30)

\* x times a channel value v in thousandths, without the product x * v
ScaleByChannel(x, v) ==
  LET ax == IF x < 0 THEN -x ELSE x
      av == IF v < 0 THEN -v ELSE v
      m  == (ax \div 1000) * av + ((ax % 1000) * av) \div 1000
  IN  IF (x < 0) # (v < 0) THEN -m ELSE m

\* wave1TranslateY..wave4TranslateY = waveNAnim.interpolate({inputRange:
\* [0, 1], outputRange: [0, max]}) in 1/100000 pixel, channel value v
waveTranslateY(ch, H, L, v) == ScaleByChannel(waveMaxTranslation(ch, H, L), v)

\* generateWavePath(amplitude, frequency, yOffset) of each layer: yOffset as a
\* percentage of SCREEN_HEIGHT, and the amplitude in pixels
waveYOffsetPercent(ch) ==
  CASE ch = "wave4Anim" -> 0  [] ch = "wave3Anim" -> 15
    [] ch = "wave2Anim" -> 30 [] ch = "wave1Anim" -> 45

waveAmplitude(ch) ==
  CASE ch = "wave4Anim" -> 15 [] ch = "wave3Anim" -> 20
    [] ch = "wave2Anim" -> 25 [] ch = "wave1Anim" -> 30

\* the highest point of a layer's top edge before translation, in 1/100000
\* pixel below the top of the screen: yOffset + amplitude * sin(..) where
\* the sine is -1
waveTopEdge(ch, H) == H * waveYOffsetPercent(ch) * 1000 - waveAmplitude(ch) * 100000

\* bottomEdgeTranslateY = bottomEdgeAnim.interpolate({inputRange: [-1, 0, 1],
\* outputRange: [-SCREEN_HEIGHT * 0.05, 0, SCREEN_HEIGHT * 0.05]}), 1/100000 px
bottomEdgeTranslateYDouble(H, v) == H * 10 * v

bottomEdgeTranslateY(H, v) == H * 5 * v

\* waterHeight = waterHeightAnim.interpolate({inputRange: [0, 100],
\* outputRange: [SCREEN_HEIGHT * 0.2, SCREEN_HEIGHT]}), in millionths of a pixel
\* for a channel value v in thousandths.  No extrapolate option is given, so
\* the line is extended outside the input range:
\*   0.2 H + (H - 0.2 H) * (v / 1000) / 100  =  H * (200000 + 8 v) / 1000000
waterHeightFullScreen(H, v) == H * (10 * v)

waterHeight(H, v) == H * (200000 + 8 * v)

\* ------------------------------------------------ TideBackground: effects
\* Animated.timing(waterHeightAnim, {toValue, duration: 2000}).start(): the
\* value's running animation is stopped and the new one starts from the value
\* the channel holds now
StartWaterTimingKeepsOld(current, timings, toLevel) ==
  Append(timings, [from |-> current, to |-> toLevel * 1000, elapsed |-> 0])

StartWaterTiming(current, timings, toLevel) ==
  << [from |-> current, to |-> toLevel * 1000, elapsed |-> 0] >>

\* the dependency list [tideLevel] of the water effect
WaterEffectRunsEveryRender(prevLevel, nextLevel) == TRUE

WaterEffectRuns(prevLevel, nextLevel) == prevLevel # nextLevel

\* one frame of every timing that writes waterHeightAnim
WaterTimingsAfterFrame(timings) ==
  SelectSeq([i \in 1..Len(timings) |->
               [timings[i] EXCEPT !.elapsed = @ + FrameMs]],
            LAMBDA t : t.elapsed < WaterDurationMs)

WaterValueAfterFrame(value, timings) ==
  IF timings = <<>> THEN value
  ELSE LET t == timings[Len(timings)]
       IN  TimingValue(t.from, t.to, t.elapsed + FrameMs, WaterDurationMs)

\* the state of a loop that .start() has just been called on
LoopStarted(value) ==
  [running |-> TRUE, leg |-> 1, elapsed |-> 0, from |-> value]

LoopIdle == [running |-> FALSE, leg |-> 1, elapsed |-> 0, from |-> 0]

\* wave1Animation.stop() ... bottomEdgeAnimation.stop(): the loop ends and
\* the channel keeps the value it has
LoopStopped(l) == [l EXCEPT !.running = FALSE]

\* a sequence played once: the loop ends with its last leg
LoopAfterFrameOnce(ch, l) ==
  IF ~l.running THEN l
  ELSE LET legs == LoopLegs(ch)
           leg  == legs[l.leg]
           e    == l.elapsed + FrameMs
       IN  IF e >= leg.duration
             THEN [running |-> l.leg < Len(legs),
                   leg     |-> IF l.leg = Len(legs) THEN 1 ELSE l.leg + 1,
                   elapsed |-> 0,
                   from    |-> TimingValue(l.from, leg.toValue, e, leg.duration)]
             ELSE [l EXCEPT !.elapsed = e]

\* one frame of a decorative loop: the running leg advances, and a finished
\* leg hands over to the next one of the sequence, the last to the first
LoopAfterFrame(ch, l) ==
  IF ~l.running THEN l
  ELSE LET legs == LoopLegs(ch)
           leg  == legs[l.leg]
           e    == l.elapsed + FrameMs
       IN  IF e >= leg.duration
             THEN [running |-> TRUE,
                   leg     |-> IF l.leg = Len(legs) THEN 1 ELSE l.leg + 1,
                   elapsed |-> 0,
                   from    |-> TimingValue(l.from, leg.toValue, e, leg.duration)]
             ELSE [l EXCEPT !.elapsed = e]

LoopValueAfterFrame(ch, value, l) ==
  IF ~l.running THEN value
  ELSE LET leg == LoopLegs(ch)[l.leg]
       IN  TimingValue(l.from, leg.toValue, l.elapsed + FrameMs, leg.duration)

\* the decorative effect body with its dependency [isReducedMotionEnabled]:
\* under reduced motion it returns before anything is started, otherwise all
\* five loops are built and started on the values the channels hold
DecorEffectIgnoresPreference(reduced, values, loops) ==
  [ch \in DecorChannels |-> LoopStarted(values[ch])]

DecorEffect(reduced, values, loops) ==
  [ch \in DecorChannels |->
     IF reduced THEN loops[ch] ELSE LoopStarted(values[ch])]

\* the cleanup returned by the decorative effect: it exists only when the
\* effect ran past its early return, and stops the five loops
DecorCleanup(reduced, loops) ==
  [ch \in DecorChannels |->
     IF reduced THEN loops[ch] ELSE LoopStopped(loops[ch])]

DecorEffectRunsOnLevelToo(prevReduced, nextReduced, prevLevel, nextLevel) ==
  prevReduced # nextReduced \/ prevLevel # nextLevel

\* the dependency list [isReducedMotionEnabled] of the decorative effect: a
\* render with another tideLevel alone does not run it
DecorEffectRuns(prevReduced, nextReduced, prevLevel, nextLevel) ==
  prevReduced # nextReduced

\* --------------------------------------------------- TideBackground: steps
\* a first render with the water channel created at 0
MountBgFromZero(L) ==
  /\ mounted = TRUE
  /\ tideLevel = L
  /\ isReducedMotionEnabled = FALSE
  /\ a11yQuery = "pending"
  /\ waterHeightAnim = 0
  /\ waterTimings = StartWaterTiming(0, <<>>, tideLevel)
  /\ animValue = [ch \in DecorChannels |-> 0]
  /\ loopState = DecorEffect(FALSE, [ch \in DecorChannels |-> 0],
                             [ch \in DecorChannels |-> LoopIdle])
  /\ ticks = 0
  /\ levelSets = 0
  /\ initialTideLevel = tideLevel

\* first render of TideBackground and its effects
MountBg(L) ==
  /\ mounted = TRUE
  /\ tideLevel = L
  /\ isReducedMotionEnabled = FALSE
  /\ a11yQuery = "pending"
  /\ waterHeightAnim = tideLevel * 1000
  /\ waterTimings = StartWaterTiming(tideLevel * 1000, <<>>, tideLevel)
  /\ animValue = [ch \in DecorChannels |-> 0]
  /\ loopState = DecorEffect(FALSE, [ch \in DecorChannels |-> 0],
                             [ch \in DecorChannels |-> LoopIdle])
  /\ ticks = 0
  /\ levelSets = 0
  /\ initialTideLevel = tideLevel

\* the parent renders the component with tideLevel = L
SetTideLevel(L) ==
  /\ mounted
  /\ levelSets < MaxLevelSets
  /\ levelSets' = levelSets + 1
  /\ tideLevel' = L
  /\ waterTimings' = IF WaterEffectRuns(tideLevel, L)
                        THEN StartWaterTiming(waterHeightAnim, waterTimings, L)
                        ELSE waterTimings
  /\ loopState' = IF DecorEffectRuns(isReducedMotionEnabled,
                                      isReducedMotionEnabled, tideLevel, L)
                     THEN DecorEffect(isReducedMotionEnabled, animValue,
                            DecorCleanup(isReducedMotionEnabled, loopState))
                     ELSE loopState
  /\ last' = [op |-> "setTideLevel", prevLevel |-> tideLevel,
              inflight |-> waterTimings # <<>>]
  /\ UNCHANGED <<mounted, isReducedMotionEnabled, a11yQuery, waterHeightAnim,
                 animValue, ticks, initialTideLevel>>
  /\ UNCHANGED homeVars

\* the preference queried again by every render
ResolveReduceMotionRequeried(enabled) ==
  /\ a11yQuery = "pending"
  /\ a11yQuery' = "pending"
  /\ IF mounted /\ enabled # isReducedMotionEnabled
       THEN /\ isReducedMotionEnabled' = enabled
            /\ loopState' = DecorEffect(enabled, animValue,
                              DecorCleanup(isReducedMotionEnabled, loopState))
       ELSE UNCHANGED <<isReducedMotionEnabled, loopState>>
  /\ last' = [op |-> IF enabled THEN "resolveTrue" ELSE "resolveFalse",
              prevLevel |-> tideLevel, inflight |-> waterTimings # <<>>]
  /\ UNCHANGED <<mounted, tideLevel, waterHeightAnim, waterTimings, animValue,
                 ticks, levelSets, initialTideLevel>>
  /\ UNCHANGED homeVars

\* the .then() of AccessibilityInfo.isReduceMotionEnabled(): the state is set,
\* and a changed state re-renders: the cleanup of the decorative effect, then
\* the effect again.  On an unmounted component the update is dropped.
ResolveReduceMotion(enabled) ==
  /\ a11yQuery = "pending"
  /\ a11yQuery' = "resolved"
  /\ IF mounted /\ enabled # isReducedMotionEnabled
       THEN /\ isReducedMotionEnabled' = enabled
            /\ loopState' = DecorEffect(enabled, animValue,
                              DecorCleanup(isReducedMotionEnabled, loopState))
       ELSE UNCHANGED <<isReducedMotionEnabled, loopState>>
  /\ last' = [op |-> IF enabled THEN "resolveTrue" ELSE "resolveFalse",
              prevLevel |-> tideLevel, inflight |-> waterTimings # <<>>]
  /\ UNCHANGED <<mounted, tideLevel, waterHeightAnim, waterTimings, animValue,
                 ticks, levelSets, initialTideLevel>>
  /\ UNCHANGED homeVars

\* one animation frame: every running timing writes its channel
Frame ==
  /\ ticks < MaxTicks
  /\ ticks' = ticks + 1
  /\ waterHeightAnim' = WaterValueAfterFrame(waterHeightAnim, waterTimings)
  /\ waterTimings' = WaterTimingsAfterFrame(waterTimings)
  /\ animValue' = [ch \in DecorChannels |->
                     LoopValueAfterFrame(ch, animValue[ch], loopState[ch])]
  /\ loopState' = [ch \in DecorChannels |-> LoopAfterFrame(ch, loopState[ch])]
  /\ last' = [op |-> "frame", prevLevel |-> tideLevel,
              inflight |-> waterTimings # <<>>]
  /\ UNCHANGED <<mounted, tideLevel, isReducedMotionEnabled, a11yQuery, levelSets,
                 initialTideLevel>>
  /\ UNCHANGED homeVars

\* one animation frame with no limit on their number: the frame counter
\* stops at MaxTicks, the channels go on
FrameUnbounded ==
  /\ ticks' = IF ticks < MaxTicks THEN ticks + 1 ELSE ticks
  /\ waterHeightAnim' = WaterValueAfterFrame(waterHeightAnim, waterTimings)
  /\ waterTimings' = WaterTimingsAfterFrame(waterTimings)
  /\ animValue' = [ch \in DecorChannels |->
                     LoopValueAfterFrame(ch, animValue[ch], loopState[ch])]
  /\ loopState' = [ch \in DecorChannels |-> LoopAfterFrame(ch, loopState[ch])]
  /\ last' = [op |-> "frame", prevLevel |-> tideLevel,
              inflight |-> waterTimings # <<>>]
  /\ UNCHANGED <<mounted, tideLevel, isReducedMotionEnabled, a11yQuery, levelSets,
                 initialTideLevel>>
  /\ UNCHANGED homeVars

\* what is left of the water timings once the component has unmounted.  The
\* water effect returns no cleanup, so the component itself stops nothing; the
\* host's Animated library may or may not stop a value whose views are gone.
WaterTimingsAtUnmount(timings, hostStops) ==
  IF hostStops THEN <<>> ELSE timings

\* the component leaves the tree: the effect cleanups run
Unmount ==
  /\ mounted
  /\ mounted' = FALSE
  /\ loopState' = DecorCleanup(isReducedMotionEnabled, loopState)
  /\ \E hostStops \in BOOLEAN :
       waterTimings' = WaterTimingsAtUnmount(waterTimings, hostStops)
  /\ last' = [op |-> "unmount", prevLevel |-> tideLevel,
              inflight |-> waterTimings # <<>>]
  /\ UNCHANGED <<tideLevel, isReducedMotionEnabled, a11yQuery, waterHeightAnim,
                 animValue, ticks, levelSets, initialTideLevel>>
  /\ UNCHANGED homeVars

\* ------------------------------------------------------------- mock data
\* MOCK_STATIONS, by id
StationIds == {"1", "2", "3", "4", "5"}

MinutesPerDay == 24 * 60

\* Math.sin(k * pi / 360) in millionths, k = 0..180 (a quarter wave in steps
\* of one minute of the twelve-hour tide cycle)
SinQuarter ==
  << 0, 8727, 17452, 26177, 34899, 43619, 52336, 61049,
     69756, 78459, 87156, 95846, 104528, 113203, 121869, 130526,
     139173, 147809, 156434, 165048, 173648, 182236, 190809, 199368,
     207912, 216440, 224951, 233445, 241922, 250380, 258819, 267238,
     275637, 284015, 292372, 300706, 309017, 317305, 325568, 333807,
     342020, 350207, 358368, 366501, 374607, 382683, 390731, 398749,
     406737, 414693, 422618, 430511, 438371, 446198, 453990, 461749,
     469472, 477159, 484810, 492424, 500000, 507538, 515038, 522499,
     529919, 537300, 544639, 551937, 559193, 566406, 573576, 580703,
     587785, 594823, 601815, 608761, 615661, 622515, 629320, 636078,
     642788, 649448, 656059, 662620, 669131, 675590, 681998, 688355,
     694658, 700909, 707107, 713250, 719340, 725374, 731354, 737277,
     743145, 748956, 754710, 760406, 766044, 771625, 777146, 782608,
     788011, 793353, 798636, 803857, 809017, 814116, 819152, 824126,
     829038, 833886, 838671, 843391, 848048, 852640, 857167, 861629,
     866025, 870356, 874620, 878817, 882948, 887011, 891007, 894934,
     898794, 902585, 906308, 909961, 913545, 917060, 920505, 923880,
     927184, 930418, 933580, 936672, 939693, 942641, 945519, 948324,
     951057, 953717, 956305, 958820, 961262, 963630, 965926, 968148,
     970296, 972370, 974370, 976296, 978148, 979925, 981627, 983255,
     984808, 986286, 987688, 989016, 990268, 991445, 992546, 993572,
     994522, 995396, 996195, 996917, 997564, 998135, 998630, 999048,
     999391, 999657, 999848, 999962, 1000000 >>

\* Math.sin((timeInHours * Math.PI) / 6) in millionths at minute M of the day
SinMicro(M) ==
  LET k == M % 720
      q == IF k >= 360 THEN k - 360 ELSE k
      v == SinQuarter[(IF q > 180 THEN 360 - q ELSE q) + 1]
  IN  IF k >= 360 THEN -v ELSE v

\* the minutes of the day at which 50 + 45 sin is a half-integer on paper and
\* double arithmetic lands just below it (11:00, 17:00, 23:00)
BelowHalfMinutes == {660, 1020, 1380}

\* the wave sampled at the full hour only
MockTideLevelHourOnly(M) ==
  (50000000 + 45 * SinMicro((M \div 60) * 60) + 500000) \div 1000000

\* a sine wave of amplitude 55 around 50
MockTideLevelAmplitude55(M) ==
  (50000000 + 55 * SinMicro(M) + 500000) \div 1000000

\* tideLevel = Math.round(50 + 45 * Math.sin((timeInHours * Math.PI) / 6));
\* Math.round takes a half up
MockTideLevel(M) ==
  LET x == 50000000 + 45 * SinMicro(M) - (IF M \in BelowHalfMinutes THEN 1 ELSE 0)
  IN  (x + 500000) \div 1000000

MockTideTypeInclusive(level, hour) ==
  IF level >= 80 THEN "high"
  ELSE IF level <= 20 THEN "low"
  ELSE IF hour < 12 THEN "rising"
  ELSE "falling"

\* the type of a reading from its level and the clock hour
MockTideType(level, hour) ==
  IF level > 80 THEN "high"
  ELSE IF level < 20 THEN "low"
  ELSE IF hour < 12 THEN "rising"
  ELSE "falling"

\* tideSchedule: today's tide times; heights in tenths of a metre
tideSchedule ==
  << [hour |-> 0,  minute |-> 30, type |-> "low",  height |-> 5],
     [hour |-> 6,  minute |-> 15, type |-> "high", height |-> 28],
     [hour |-> 12, minute |-> 45, type |-> "low",  height |-> 3],
     [hour |-> 18, minute |-> 30, type |-> "high", height |-> 29] >>

\* let currentEvent = null, nextEvent = null
NoEvent == [day |-> 0, minute |-> 0, type |-> "null", height |-> 0]

\* a TideEvent: new Date(year, month, date + day, tide.hour, tide.minute), as
\* the day relative to today and the minute of that day
TideEventOn(day, tide) ==
  [day |-> day, minute |-> tide.hour * 60 + tide.minute,
   type |-> tide.type, height |-> tide.height]

TideIsCurrentStrict(tideTimeInMinutes, currentTimeInMinutes) ==
  tideTimeInMinutes < currentTimeInMinutes

\* the test that makes a schedule entry the current event
TideIsCurrent(tideTimeInMinutes, currentTimeInMinutes) ==
  tideTimeInMinutes <= currentTimeInMinutes

\* the for loop over tideSchedule from entry i on: an entry at or before now
\* overwrites currentEvent, the first later entry becomes nextEvent
RECURSIVE ScanSchedule(_, _, _, _)
ScanSchedule(i, currentTimeInMinutes, currentEvent, nextEvent) ==
  IF i > Len(tideSchedule)
    THEN [current |-> currentEvent, next |-> nextEvent]
    ELSE LET tide == tideSchedule[i]
             tideTimeInMinutes == tide.hour * 60 + tide.minute
         IN  IF TideIsCurrent(tideTimeInMinutes, currentTimeInMinutes)
               THEN ScanSchedule(i + 1, currentTimeInMinutes,
                                 TideEventOn(0, tide), nextEvent)
               ELSE IF nextEvent = NoEvent
                 THEN ScanSchedule(i + 1, currentTimeInMinutes,
                                   currentEvent, TideEventOn(0, tide))
                 ELSE ScanSchedule(i + 1, currentTimeInMinutes,
                                   currentEvent, nextEvent)

\* calculateTideEvents(now) at minute M of today: without a next event today
\* tomorrow's first tide, without a current one yesterday's last tide
calculateTideEvents(M) ==
  LET scan == ScanSchedule(1, M, NoEvent, NoEvent)
  IN  [current |-> IF scan.current = NoEvent
                     THEN TideEventOn(-1, tideSchedule[Len(tideSchedule)])
                     ELSE scan.current,
       next    |-> IF scan.next = NoEvent
                     THEN TideEventOn(1, tideSchedule[1])
                     ELSE scan.next]

\* (tideLevel / 100) * 4 - 1 in millionths of a metre
MockHeightMicro(level) == (level * 10000) * 4 - 1000000

ToFixed1(micro) ==
  IF micro >= 0 THEN 10 * ((micro + 50000) \div 100000)
  ELSE -(10 * ((50000 - micro) \div 100000))

\* parseFloat(x.toFixed(2)) in hundredths: the magnitude is rounded to two
\* decimals, a half away from zero, and the sign is kept
ToFixed2(micro) ==
  IF micro >= 0 THEN (micro + 5000) \div 10000
  ELSE -((5000 - micro) \div 10000)

\* getMockTideData(stationId) at minute M of the day; height in hundredths of
\* a metre
getMockTideData(stationId, M) ==
  LET level == MockTideLevel(M)
  IN  [stationId |-> stationId,
       timestamp |-> M,
       tideLevel |-> level,
       height    |-> ToFixed2(MockHeightMicro(level)),
       type      |-> MockTideType(level, M \div 60),
       currentTideEvent |-> calculateTideEvents(M).current,
       nextTideEvent    |-> calculateTideEvents(M).next]

\* ------------------------------------------------------------ HomeScreen
\* maxLength of the test tide level input
MaxLength == 3

\* characters the input may hold
TextChars == {"0", "1", "-", "a"}

Texts == UNION {[1..n -> TextChars] : n \in 0..MaxLength}

Digits == {"0", "1", "2", "3", "4", "5", "6", "7", "8", "9"}

DigitValue(c) ==
  CASE c = "0" -> 0 [] c = "1" -> 1 [] c = "2" -> 2 [] c = "3" -> 3
    [] c = "4" -> 4 [] c = "5" -> 5 [] c = "6" -> 6 [] c = "7" -> 7
    [] c = "8" -> 8 [] c = "9" -> 9

RECURSIVE SkipSpaces(_)
SkipSpaces(text) ==
  IF text # <<>> /\ Head(text) = " " THEN SkipSpaces(Tail(text)) ELSE text

\* the value of the longest run of digits at the head of text, after acc
RECURSIVE ReadDigits(_, _)
ReadDigits(text, acc) ==
  IF text # <<>> /\ Head(text) \in Digits
    THEN ReadDigits(Tail(text), 10 * acc + DigitValue(Head(text)))
    ELSE acc

\* parseInt(text, 10): leading white space, an optional sign, then digits up
\* to the first other character; NaN when no digit is there
ParseInt(text) ==
  LET t    == SkipSpaces(text)
      neg  == t # <<>> /\ Head(t) = "-"
      body == IF t # <<>> /\ Head(t) \in {"-", "+"} THEN Tail(t) ELSE t
  IN  IF body = <<>> \/ Head(body) \notin Digits
        THEN [nan |-> TRUE, value |-> 0]
        ELSE [nan |-> FALSE,
              value |-> IF neg THEN -ReadDigits(body, 0) ELSE ReadDigits(body, 0)]

Min(a, b) == IF a < b THEN a ELSE b
Max(a, b) == IF a > b THEN a ELSE b

displayTideLevelIgnoresFlag ==
  IF testTideLevel # <<>>
    THEN LET n == ParseInt(testTideLevel)
         IN  Min(100, Max(0, IF n.nan THEN 0 ELSE n.value))
    ELSE tideData.tideLevel

displayTideLevelUnclamped ==
  IF useTestTide /\ testTideLevel # <<>>
    THEN LET n == ParseInt(testTideLevel)
         IN  IF n.nan THEN 0 ELSE n.value
    ELSE tideData.tideLevel

\* displayTideLevel: the test override or the reading's level
displayTideLevel ==
  IF useTestTide /\ testTideLevel # <<>>
    THEN LET n == ParseInt(testTideLevel)
         IN  Min(100, Max(0, IF n.nan THEN 0 ELSE n.value))
    ELSE tideData.tideLevel

StationEffectRunsOnMountOnly(prevStation, nextStation) == FALSE

StationEffectRunsEverySelect(prevStation, nextStation) == TRUE

\* the dependency list [currentStation] of the tide data effect
StationEffectRuns(prevStation, nextStation) == prevStation # nextStation

\* the reading the tide data effect stores
StationEffectReading(station, M) == getMockTideData(station, M)

\* first render of HomeScreen; its effects are still due
MountHome ==
  /\ clock \in StartClocks
  /\ clockSteps = 0
  /\ currentStation = "1"
  /\ tideData = getMockTideData("1", clock)
  /\ testTideLevel = <<>>
  /\ useTestTide = FALSE
  /\ stationEffectPending = TRUE

\* a handler that drops the override on every text that is not valid
HandleTideLevelChangeStrict(value) ==
  /\ ~stationEffectPending
  /\ testTideLevel' = value
  /\ LET n == ParseInt(value)
     IN  useTestTide' = (~n.nan /\ n.value >= 0 /\ n.value <= 100)
  /\ last' = [op |-> "handleTideLevelChange", prevLevel |-> tideLevel,
              inflight |-> FALSE]
  /\ UNCHANGED <<currentStation, tideData, stationEffectPending, clock, clockSteps>>
  /\ UNCHANGED <<bgVars, searchVars>>

\* handleTideLevelChange(value)
HandleTideLevelChange(value) ==
  /\ ~stationEffectPending
  /\ testTideLevel' = value
  /\ LET n == ParseInt(value)
     IN  useTestTide' = IF ~n.nan /\ n.value >= 0 /\ n.value <= 100 THEN TRUE
                        ELSE IF value = <<>> THEN FALSE
                        ELSE useTestTide
  /\ last' = [op |-> "handleTideLevelChange", prevLevel |-> tideLevel,
              inflight |-> FALSE]
  /\ UNCHANGED <<currentStation, tideData, stationEffectPending, clock, clockSteps>>
  /\ UNCHANGED <<bgVars, searchVars>>

\* handleStationSelect(station): setCurrentStation, and the render that a
\* changed station causes
HandleStationSelect(station) ==
  /\ ~stationEffectPending
  /\ currentStation' = station
  /\ stationEffectPending' = StationEffectRuns(currentStation, station)
  /\ last' = [op |-> "handleStationSelect", prevLevel |-> tideLevel,
              inflight |-> FALSE, prevStation |-> currentStation]
  /\ UNCHANGED <<tideData, testTideLevel, useTestTide, clock, clockSteps>>
  /\ UNCHANGED <<bgVars, searchVars>>

\* the effect: setTideData(getMockTideData(currentStation.id))
StationEffect ==
  /\ stationEffectPending
  /\ stationEffectPending' = FALSE
  /\ tideData' = StationEffectReading(currentStation, clock)
  /\ last' = [op |-> "stationEffect", prevLevel |-> tideLevel, inflight |-> FALSE]
  /\ UNCHANGED <<currentStation, testTideLevel, useTestTide, clock, clockSteps>>
  /\ UNCHANGED <<bgVars, searchVars>>

\* time passes
AdvanceClock ==
  /\ clockSteps < MaxClockSteps
  /\ clockSteps' = clockSteps + 1
  /\ clock' = (clock + ClockStepMinutes) % MinutesPerDay
  /\ last' = [op |-> "advanceClock", prevLevel |-> tideLevel, inflight |-> FALSE]
  /\ UNCHANGED <<currentStation, tideData, testTideLevel, useTestTide,
                 stationEffectPending>>
  /\ UNCHANGED <<bgVars, searchVars>>

\* --------------------------------------------------------- StationSearch
\* MOCK_STATIONS; names and locations as sequences of characters
MOCK_STATIONS ==
  << [id |-> "1",
      name |-> << "S", "a", "n", "t", "a", " ", "M", "o", "n", "i", "c", "a", " ", "P", "i", "e", "r" >>,
      location |-> << "S", "a", "n", "t", "a", " ", "M", "o", "n", "i", "c", "a", ",", " ", "C", "A" >>],
     [id |-> "2",
      name |-> << "G", "o", "l", "d", "e", "n", " ", "G", "a", "t", "e", " ", "B", "r", "i", "d", "g", "e" >>,
      location |-> << "S", "a", "n", " ", "F", "r", "a", "n", "c", "i", "s", "c", "o", ",", " ", "C", "A" >>],
     [id |-> "3",
      name |-> << "L", "a", " ", "J", "o", "l", "l", "a", " ", "C", "o", "v", "e" >>,
      location |-> << "L", "a", " ", "J", "o", "l", "l", "a", ",", " ", "C", "A" >>],
     [id |-> "4",
      name |-> << "H", "u", "n", "t", "i", "n", "g", "t", "o", "n", " ", "B", "e", "a", "c", "h", " ", "P", "i", "e", "r" >>,
      location |-> << "H", "u", "n", "t", "i", "n", "g", "t", "o", "n", " ", "B", "e", "a", "c", "h", ",", " ", "C", "A" >>],
     [id |-> "5",
      name |-> << "M", "o", "n", "t", "e", "r", "e", "y", " ", "B", "a", "y" >>,
      location |-> << "M", "o", "n", "t", "e", "r", "e", "y", ",", " ", "C", "A" >>] >>

UpperCaseLetters ==
  << "A", "B", "C", "D", "E", "F", "G", "H", "I", "J", "K", "L", "M", "N", "O", "P", "Q", "R", "S", "T", "U", "V", "W", "X", "Y", "Z" >>
LowerCaseLetters ==
  << "a", "b", "c", "d", "e", "f", "g", "h", "i", "j", "k", "l", "m", "n", "o", "p", "q", "r", "s", "t", "u", "v", "w", "x", "y", "z" >>

\* the lower-case letter of each upper-case letter
LowerOf ==
  [c \in {UpperCaseLetters[i] : i \in 1..Len(UpperCaseLetters)} |->
     LowerCaseLetters[CHOOSE i \in 1..Len(UpperCaseLetters) :
                        UpperCaseLetters[i] = c]]

\* String.prototype.toLowerCase, character by character
LowerChar(c) == IF c \in DOMAIN LowerOf THEN LowerOf[c] ELSE c

toLowerCase(str) == [i \in 1..Len(str) |-> LowerChar(str[i])]

\* the characters String.prototype.trim removes
WhiteSpace == {" ", "\t", "\n"}

RECURSIVE TrimStart(_)
TrimStart(str) ==
  IF str # <<>> /\ Head(str) \in WhiteSpace THEN TrimStart(Tail(str)) ELSE str

RECURSIVE TrimEnd(_)
TrimEnd(str) ==
  IF str # <<>> /\ str[Len(str)] \in WhiteSpace
    THEN TrimEnd(SubSeq(str, 1, Len(str) - 1))
    ELSE str

trim(str) == TrimEnd(TrimStart(str))

\* String.prototype.includes
includes(str, searchString) ==
  \E i \in 0..(Len(str) - Len(searchString)) :
     SubSeq(str, i + 1, i + Len(searchString)) = searchString

StationMatchesNameOnly(station, query) ==
  includes(toLowerCase(station.name), toLowerCase(query))

\* the predicate of stations.filter
StationMatches(station, query) ==
  \/ includes(toLowerCase(station.name), toLowerCase(query))
  \/ includes(toLowerCase(station.location), toLowerCase(query))

QueryIsTruthyUntrimmed(query) == query # <<>>

\* searchQuery.trim() as a condition: a non-empty string is truthy
QueryIsTruthy(query) == trim(query) # <<>>

\* filteredStations
filteredStations ==
  IF QueryIsTruthy(searchQuery)
    THEN LET Keep(station) == StationMatches(station, searchQuery)
         IN  SelectSeq(stations, Keep)
    ELSE <<>>

\* the results dropdown is rendered
resultsShown == isSearching /\ Len(filteredStations) > 0

\* the station lists handed to the search: the catalog, no station at all,
\* and two stations of it in another order
StationLists ==
  {MOCK_STATIONS, <<>>, <<MOCK_STATIONS[5], MOCK_STATIONS[3]>>}

\* the current station label is rendered
currentStationShown == ~isSearching

\* first render of StationSearch with the stations prop
MountSearch(list) ==
  /\ stations = list
  /\ searchQuery = <<>>
  /\ isSearching = FALSE
  /\ inputFocused = FALSE
  /\ blurTimers = 0

\* what one keystroke in the input makes of the text: a character more, or
\* the last character less
TypedTexts(text) ==
  {Append(text, c) : c \in IF Len(text) < MaxQueryLen THEN QueryChars ELSE {}}
    \cup (IF text = <<>> THEN {} ELSE {SubSeq(text, 1, Len(text) - 1)})

\* onChangeText={setSearchQuery}
ChangeText(text) ==
  /\ ~stationEffectPending
  /\ inputFocused
  /\ searchQuery' = text
  /\ last' = [op |-> "changeText", prevLevel |-> tideLevel, inflight |-> FALSE]
  /\ UNCHANGED <<stations, isSearching, inputFocused, blurTimers>>
  /\ UNCHANGED <<currentStation, tideData, testTideLevel, useTestTide,
                 stationEffectPending, clock, clockSteps>>
  /\ UNCHANGED bgVars

\* onFocus={() => setIsSearching(true)}
Focus ==
  /\ ~stationEffectPending
  /\ ~inputFocused
  /\ inputFocused' = TRUE
  /\ isSearching' = TRUE
  /\ last' = [op |-> "focus", prevLevel |-> tideLevel, inflight |-> FALSE]
  /\ UNCHANGED <<stations, searchQuery, blurTimers>>
  /\ UNCHANGED <<currentStation, tideData, testTideLevel, useTestTide,
                 stationEffectPending, clock, clockSteps>>
  /\ UNCHANGED bgVars

\* onBlur: setTimeout(() => setIsSearching(false), 200)
Blur ==
  /\ ~stationEffectPending
  /\ inputFocused
  /\ blurTimers < MaxBlurTimers
  /\ inputFocused' = FALSE
  /\ blurTimers' = blurTimers + 1
  /\ last' = [op |-> "blur", prevLevel |-> tideLevel, inflight |-> FALSE]
  /\ UNCHANGED <<stations, searchQuery, isSearching>>
  /\ UNCHANGED <<currentStation, tideData, testTideLevel, useTestTide,
                 stationEffectPending, clock, clockSteps>>
  /\ UNCHANGED bgVars

\* a timeout set by onBlur comes due: setIsSearching(false)
BlurTimerFires ==
  /\ ~stationEffectPending
  /\ blurTimers > 0
  /\ blurTimers' = blurTimers - 1
  /\ isSearching' = FALSE
  /\ last' = [op |-> "blurTimer", prevLevel |-> tideLevel, inflight |-> FALSE]
  /\ UNCHANGED <<stations, searchQuery, inputFocused>>
  /\ UNCHANGED <<currentStation, tideData, testTideLevel, useTestTide,
                 stationEffectPending, clock, clockSteps>>
  /\ UNCHANGED bgVars

\* the clear button, rendered while searchQuery.length > 0
PressClear ==
  /\ ~stationEffectPending
  /\ Len(searchQuery) > 0
  /\ searchQuery' = <<>>
  /\ isSearching' = FALSE
  /\ last' = [op |-> "pressClear", prevLevel |-> tideLevel, inflight |-> FALSE]
  /\ UNCHANGED <<stations, inputFocused, blurTimers>>
  /\ UNCHANGED <<currentStation, tideData, testTideLevel, useTestTide,
                 stationEffectPending, clock, clockSteps>>
  /\ UNCHANGED bgVars

\* a tap that takes row i of the whole station list
PressResultOfStations(i) ==
  /\ ~stationEffectPending
  /\ resultsShown
  /\ i \in 1..Len(filteredStations)
  /\ inputFocused => blurTimers < MaxBlurTimers
  /\ currentStation' = stations[i].id
  /\ stationEffectPending' = StationEffectRuns(currentStation, stations[i].id)
  /\ searchQuery' = <<>>
  /\ isSearching' = FALSE
  /\ inputFocused' = FALSE
  /\ blurTimers' = IF inputFocused THEN blurTimers + 1 ELSE blurTimers
  /\ last' = [op |-> "pressResult", prevLevel |-> tideLevel, inflight |-> FALSE,
              row |-> i, calls |-> <<stations[i].id>>]
  /\ UNCHANGED <<stations, tideData, testTideLevel, useTestTide, clock,
                 clockSteps>>
  /\ UNCHANGED bgVars

\* a tap on row i of the results: handleStationSelect(item), that is
\* onStationSelect (HomeScreen's handleStationSelect), the query and the
\* searching flag reset, and Keyboard.dismiss(), which blurs a focused input;
\* last keeps the row tapped and the arguments onStationSelect was called with
PressResult(i) ==
  /\ ~stationEffectPending
  /\ resultsShown
  /\ i \in 1..Len(filteredStations)
  /\ inputFocused => blurTimers < MaxBlurTimers
  /\ currentStation' = filteredStations[i].id
  /\ stationEffectPending' =
        StationEffectRuns(currentStation, filteredStations[i].id)
  /\ searchQuery' = <<>>
  /\ isSearching' = FALSE
  /\ inputFocused' = FALSE
  /\ blurTimers' = IF inputFocused THEN blurTimers + 1 ELSE blurTimers
  /\ last' = [op |-> "pressResult", prevLevel |-> tideLevel, inflight |-> FALSE,
              row |-> i, calls |-> <<filteredStations[i].id>>]
  /\ UNCHANGED <<stations, tideData, testTideLevel, useTestTide, clock,
                 clockSteps>>
  /\ UNCHANGED bgVars

\* ------------------------------------------------------- specifications
InitBg ==
  /\ \E L \in Levels : MountBg(L)
  /\ clock = 0 /\ clockSteps = 0
  /\ currentStation = "1"
  /\ tideData = getMockTideData("1", 0)
  /\ testTideLevel = <<>>
  /\ useTestTide = FALSE
  /\ stationEffectPending = FALSE
  /\ MountSearch(MOCK_STATIONS)
  /\ last = [op |-> "mount", prevLevel |-> tideLevel, inflight |-> FALSE]

NextBg ==
  \/ \E L \in Levels : SetTideLevel(L)
  \/ \E enabled \in BOOLEAN : ResolveReduceMotion(enabled)
  \/ Frame
  \/ Unmount

SpecBg == InitBg /\ [][NextBg]_vars

\* the background given levels of the documented range 0..100 only
PercentLevels == {L \in Levels : L >= 0 /\ L <= 100}

InitBgPercent == InitBg /\ tideLevel \in PercentLevels

NextBgPercent ==
  \/ \E L \in PercentLevels : SetTideLevel(L)
  \/ \E enabled \in BOOLEAN : ResolveReduceMotion(enabled)
  \/ Frame
  \/ Unmount

SpecBgPercent == InitBgPercent /\ [][NextBgPercent]_vars

\* the background at one tide level, for as long as it runs: frames without
\* end, the preference query, the unmount
InitWaves == InitBg /\ tideLevel = 50

NextWaves ==
  \/ FrameUnbounded
  \/ \E enabled \in BOOLEAN : ResolveReduceMotion(enabled)
  \/ Unmount

SpecWaves == InitWaves /\ [][NextWaves]_vars

\* frames keep coming
SpecWavesFair == SpecWaves /\ WF_vars(FrameUnbounded)

\* HomeScreen alone: the background it renders is held at its mount state
InitHome ==
  /\ MountHome
  /\ MountBg(displayTideLevel)
  /\ MountSearch(MOCK_STATIONS)
  /\ last = [op |-> "mount", prevLevel |-> displayTideLevel, inflight |-> FALSE]

NextHome ==
  \/ \E value \in Texts : HandleTideLevelChange(value)
  \/ \E station \in StationIds : HandleStationSelect(station)
  \/ StationEffect
  \/ AdvanceClock

SpecHome == InitHome /\ [][NextHome]_vars

\* the mock data generator alone: a call of getMockTideData(stationId) at
\* any minute of the day; the screen and its background are held at mount
CallGetMockTideData(stationId) ==
  /\ tideData' = getMockTideData(stationId, clock)
  /\ last' = [op |-> "getMockTideData", prevLevel |-> tideLevel,
              inflight |-> FALSE]
  /\ UNCHANGED <<currentStation, testTideLevel, useTestTide,
                 stationEffectPending, clock, clockSteps>>
  /\ UNCHANGED <<bgVars, searchVars>>

InitData ==
  /\ clock \in 0 .. (MinutesPerDay - 1)
  /\ clockSteps = 0
  /\ currentStation = "1"
  /\ tideData = getMockTideData("1", 0)
  /\ testTideLevel = <<>>
  /\ useTestTide = FALSE
  /\ stationEffectPending = FALSE
  /\ MountBg(displayTideLevel)
  /\ MountSearch(MOCK_STATIONS)
  /\ last = [op |-> "mount", prevLevel |-> displayTideLevel, inflight |-> FALSE]

NextData == \E stationId \in StationIds : CallGetMockTideData(stationId)

SpecData == InitData /\ [][NextData]_vars

\* StationSearch under HomeScreen, opened at 06:00 with the mount effects
\* done; the background is held at its mount state
InitSearch ==
  /\ clock = 6 * 60
  /\ clockSteps = 0
  /\ currentStation = "1"
  /\ tideData = getMockTideData("1", clock)
  /\ testTideLevel = <<>>
  /\ useTestTide = FALSE
  /\ stationEffectPending = FALSE
  /\ MountBg(displayTideLevel)
  /\ \E list \in StationLists : MountSearch(list)
  /\ last = [op |-> "mount", prevLevel |-> displayTideLevel, inflight |-> FALSE]

NextSearch ==
  \/ \E text \in TypedTexts(searchQuery) : ChangeText(text)
  \/ Focus
  \/ Blur
  \/ BlurTimerFires
  \/ PressClear
  \/ \E i \in 1..Len(stations) : PressResult(i)
  \/ StationEffect

SpecSearch == InitSearch /\ [][NextSearch]_vars

\* ------------------------------------------------------------- properties
\* the water depth of a level as the specification states it, in thousandths
\* of a pixel: 20% of H at level 0, 100% of H at level 100, linear in between
SpecDepth(H, L) == 200 * H + 8 * H * L

\* C1: once the transition to a level L in [0,100] has completed, the projected
\* water boundary is 0.2*H + 0.8*H*L/100 (millionths of a pixel), whatever the
\* value the channel started from; level 0 gives 20%, 50 gives 60%, 100 gives
\* 100% of H.
C1_BoundaryAfterTransition ==
  (mounted /\ waterTimings = <<>> /\ tideLevel \in 0..100) =>
     \A H \in Heights :
        /\ waterHeight(H, waterHeightAnim) = 1000 * SpecDepth(H, tideLevel)
        /\ tideLevel = 0   => waterHeight(H, waterHeightAnim) = 200000 * H
        /\ tideLevel = 50  => waterHeight(H, waterHeightAnim) = 600000 * H
        /\ tideLevel = 100 => waterHeight(H, waterHeightAnim) = 1000000 * H

\* a transition from level 0 up to level 50 has completed: boundary at 60%
C1_Witness ==
  /\ mounted /\ waterTimings = <<>> /\ last.op = "frame"
  /\ initialTideLevel = 0 /\ tideLevel = 50
  /\ waterHeight(844, waterHeightAnim) = 506400000

\* C2: a level change during a transition in flight supersedes it: exactly one
\* timing is left on the channel, it starts from the value the channel holds at
\* that moment and heads for the new level, and the change itself does not
\* move the channel.
C2_Supersede ==
  [][(last'.op = "setTideLevel" /\ last'.prevLevel # tideLevel' /\ last'.inflight)
       => /\ waterTimings' = << [from |-> waterHeightAnim,
                                 to |-> tideLevel' * 1000, elapsed |-> 0] >>
          /\ waterHeightAnim' = waterHeightAnim]_vars

\* a transition was superseded half way: the new one starts from a value that
\* is neither 0 nor the previous target nor the value before that
C2_Witness ==
  /\ last.op = "setTideLevel" /\ last.inflight /\ last.prevLevel # tideLevel
  /\ Len(waterTimings) = 1
  /\ waterTimings[1].from = waterHeightAnim
  /\ waterHeightAnim \notin {0, last.prevLevel * 1000, initialTideLevel * 1000}

\* C3: the lightest layer travels up at most 50% of the water depth below
\* level 20 and 15% of it from level 20 on (20 included); the other layers
\* 40%, 35% and 30% at every level.  Travel is in 1/100000 pixel.
C3_LayerTravel ==
  \A H \in Heights :
     /\ -waveMaxTranslation("wave1Anim", H, tideLevel) =
          (IF tideLevel < 20 THEN 50 ELSE 15) * SpecDepth(H, tideLevel)
     /\ -waveMaxTranslation("wave2Anim", H, tideLevel) = 40 * SpecDepth(H, tideLevel)
     /\ -waveMaxTranslation("wave3Anim", H, tideLevel) = 35 * SpecDepth(H, tideLevel)
     /\ -waveMaxTranslation("wave4Anim", H, tideLevel) = 30 * SpecDepth(H, tideLevel)

\* the level went from 10 (50% travel) to exactly 20 (15% travel)
C3_Witness ==
  /\ last.op = "setTideLevel" /\ last.prevLevel = 10 /\ tideLevel = 20
  /\ -waveMaxTranslation("wave1Anim", 844, 20) = 15 * 303840
  /\ -waveMaxTranslation("wave1Anim", 844, 10) = 50 * 236320

\* C4: whatever level is given, the projected boundary and the depth used for
\* layer travel stay within 20% and 100% of H.
C4_LevelClamped ==
  mounted =>
    \A H \in Heights :
       /\ waterHeight(H, waterHeightAnim) >= 200000 * H
       /\ waterHeight(H, waterHeightAnim) <= 1000000 * H
       /\ actualWaterHeight(H, tideLevel) >= 200 * H
       /\ actualWaterHeight(H, tideLevel) <= 1000 * H

\* C5: under reduced motion no decorative channel changes in any step, while
\* a level change still starts a water transition from the current value, and
\* a completed transition has brought the channel to the level.
C5_ReducedMotionFreezesDecor ==
  [][/\ isReducedMotionEnabled => animValue' = animValue
     /\ (isReducedMotionEnabled /\ last'.op = "setTideLevel"
           /\ last'.prevLevel # tideLevel')
          => waterTimings' = << [from |-> waterHeightAnim,
                                 to |-> tideLevel' * 1000, elapsed |-> 0] >>
     /\ (isReducedMotionEnabled /\ mounted' /\ waterTimings # <<>>
           /\ waterTimings' = <<>>)
          => waterHeightAnim' = tideLevel * 1000]_vars

\* under reduced motion, with the waves stopped where they were, a level
\* change has started a water transition
C5_Witness ==
  /\ isReducedMotionEnabled /\ animValue["wave1Anim"] > 0
  /\ last.op = "setTideLevel" /\ last.prevLevel # tideLevel
  /\ waterTimings # <<>>

\* C6: whenever reduced motion is enabled, the four wave channels and the
\* wobble channel are at their rest value 0.
C6_ReducedMotionAtRest ==
  isReducedMotionEnabled => \A ch \in DecorChannels : animValue[ch] = 0

C8_SameLevelNoOp ==
  [][(last'.op = "setTideLevel" /\ last'.prevLevel = tideLevel')
       => /\ waterTimings' = waterTimings
          /\ waterHeightAnim' = waterHeightAnim]_vars

\* the level was changed, the transition completed, and the same level was
\* given again: nothing is in flight
C8_Witness ==
  /\ last.op = "setTideLevel" /\ last.prevLevel = tideLevel
  /\ tideLevel # initialTideLevel /\ levelSets = 2
  /\ waterTimings = <<>> /\ waterHeightAnim = tideLevel * 1000

\* C9: the level passed to the background is the tideLevel of the current
\* reading, after any station selections and test tide level edits.
C9_LevelIsReadingLevel ==
  displayTideLevel = tideData.tideLevel

\* C9 as amended: the level passed to the background is the tideLevel of the
\* current reading whenever the test override is off or the test text is
\* empty; with the override on it is the integer of the test text (0 when it
\* has none) clamped to 0..100.
C9_LevelIsReadingLevelUnlessOverridden ==
  /\ (~useTestTide \/ testTideLevel = <<>>) =>
        displayTideLevel = tideData.tideLevel
  /\ (useTestTide /\ testTideLevel # <<>>) =>
        LET n == ParseInt(testTideLevel)
        IN  displayTideLevel = IF n.nan \/ n.value < 0 THEN 0
                               ELSE IF n.value > 100 THEN 100
                               ELSE n.value

\* a station was selected and an unusable text typed with the override off:
\* the background gets the reading's level
C9_Witness ==
  /\ ~stationEffectPending /\ currentStation # "1"
  /\ ~useTestTide /\ testTideLevel = <<"a", "1">>
  /\ displayTideLevel = tideData.tideLevel

\* C10: in every quiescent state the reading is the one generated for the
\* current station: its stationId is the current station's id and every
\* field is that of one getMockTideData call.
C10_ReadingFollowsStation ==
  ~stationEffectPending =>
     /\ tideData.stationId = currentStation
     /\ tideData = getMockTideData(currentStation, tideData.timestamp)

\* after a selection made later in the day the reading is a new one for the
\* selected station
C10_Witness ==
  /\ ~stationEffectPending /\ currentStation = "3"
  /\ tideData.stationId = "3"
  /\ clockSteps >= 1 /\ tideData.timestamp = clock

\* C11: for every station id and every hour 0-23 and minute 0-59, the reading
\* getMockTideData returns has a tideLevel within [0,100].
C11_LevelInRange ==
  last.op = "getMockTideData" =>
     /\ tideData.tideLevel >= 0
     /\ tideData.tideLevel <= 100

\* the reading of station 3 taken at 03:00, the crest of the wave
C11_Witness ==
  /\ last.op = "getMockTideData"
  /\ clock = 3 * 60
  /\ tideData.stationId = "3"
  /\ tideData.tideLevel = 95

\* C12: in every reading, 100 * height = 4 * tideLevel - 100 for the integer
\* tideLevel of the same reading (height is in hundredths of a metre).
C12_HeightFromLevel ==
  last.op = "getMockTideData" =>
     tideData.height = 4 * tideData.tideLevel - 100

\* a reading with a negative height: 09:00, level 5, height -0.80
C12_Witness ==
  /\ last.op = "getMockTideData"
  /\ clock = 9 * 60
  /\ tideData.tideLevel = 5
  /\ tideData.height = -80

\* the fixed schedule as the specification states it: minute of the day and
\* type of each entry
SpecSchedule ==
  { [minute |-> 0 * 60 + 30,  type |-> "low"],
    [minute |-> 6 * 60 + 15,  type |-> "high"],
    [minute |-> 12 * 60 + 45, type |-> "low"],
    [minute |-> 18 * 60 + 30, type |-> "high"] }

\* the time of an event in minutes from today's midnight
EventTime(e) == e.day * MinutesPerDay + e.minute

\* C13: currentTideEvent is the schedule entry with the latest time at or
\* before now (yesterday's 18:30 high before 00:30), nextTideEvent the entry
\* with the earliest time strictly after now (tomorrow's 00:30 low from 18:30
\* on); so currentTideEvent.time <= now < nextTideEvent.time and the two types
\* are opposite; 07:00 gives high 06:15 then low 12:45, 23:50 gives next low
\* 00:30 tomorrow.
C13_EventsBracketNow ==
  last.op = "getMockTideData" =>
     LET now     == clock
         cur     == tideData.currentTideEvent
         nxt     == tideData.nextTideEvent
         before  == {e \in SpecSchedule : e.minute <= now}
         after   == {e \in SpecSchedule : e.minute > now}
     IN  /\ IF before = {}
              THEN cur.day = -1 /\ cur.minute = 18 * 60 + 30 /\ cur.type = "high"
              ELSE /\ cur.day = 0
                   /\ [minute |-> cur.minute, type |-> cur.type] \in before
                   /\ \A e \in before : e.minute <= cur.minute
         /\ IF after = {}
              THEN nxt.day = 1 /\ nxt.minute = 30 /\ nxt.type = "low"
              ELSE /\ nxt.day = 0
                   /\ [minute |-> nxt.minute, type |-> nxt.type] \in after
                   /\ \A e \in after : e.minute >= nxt.minute
         /\ (now < 30) = (before = {})
         /\ (now >= 18 * 60 + 30) = (after = {})
         /\ EventTime(cur) <= now
         /\ now < EventTime(nxt)
         /\ {cur.type, nxt.type} = {"high", "low"}
         /\ now = 7 * 60 =>
               /\ cur.type = "high" /\ EventTime(cur) = 6 * 60 + 15
               /\ nxt.type = "low"  /\ EventTime(nxt) = 12 * 60 + 45
         /\ now = 23 * 60 + 50 =>
               nxt.type = "low" /\ EventTime(nxt) = MinutesPerDay + 30

\* a reading taken exactly at 06:15: the high tide of 06:15 is current
C13_Witness ==
  /\ last.op = "getMockTideData"
  /\ clock = 6 * 60 + 15
  /\ tideData.currentTideEvent.minute = clock
  /\ tideData.currentTideEvent.type = "high"
  /\ tideData.nextTideEvent.type = "low"

\* C14: the type of a reading follows from its tideLevel and the clock hour
\* only: high above 80, else low below 20, else rising before 12:00 and
\* falling from 12:00 on; levels exactly 80 and exactly 20 are rising/falling.
C14_TypeFromLevelAndHour ==
  last.op = "getMockTideData" =>
     LET level == tideData.tideLevel
         hour  == clock \div 60
     IN  /\ tideData.type = (IF level > 80 THEN "high"
                             ELSE IF level < 20 THEN "low"
                             ELSE IF hour < 12 THEN "rising"
                             ELSE "falling")
         /\ level \in {20, 80} =>
               tideData.type = (IF hour < 12 THEN "rising" ELSE "falling")

\* a reading of level exactly 80 taken in the afternoon: falling
C14_Witness ==
  /\ last.op = "getMockTideData"
  /\ tideData.tideLevel = 80
  /\ clock >= 12 * 60
  /\ tideData.type = "falling"

BlankQuery(query) == \A i \in 1..Len(query) : query[i] \in {" ", "\t", "\n"}

\* C16: an empty or whitespace-only query yields an empty result list, and no
\* results dropdown is shown, whatever the station list and the focus state.
C16_BlankQueryNoResults ==
  BlankQuery(searchQuery) => filteredStations = <<>> /\ ~resultsShown

\* the catalog searched with two spaces while the input has the focus
C16_Witness ==
  /\ searchQuery = <<" ", " ">>
  /\ isSearching /\ inputFocused
  /\ stations = MOCK_STATIONS

\* the pairs of one letter in its two cases
CasePairs ==
  UNION {{<<UpperCaseLetters[i], LowerCaseLetters[i]>>,
          <<LowerCaseLetters[i], UpperCaseLetters[i]>>} :
         i \in 1..Len(UpperCaseLetters)}

\* two characters that are the same letter up to case, or the same character
SameIgnoringCase(a, b) == a = b \/ <<a, b>> \in CasePairs

\* query occurs in str as a substring when case is ignored
ContainsIgnoringCase(str, query) ==
  \E at \in 0..(Len(str) - Len(query)) :
     \A j \in 1..Len(query) : SameIgnoringCase(str[at + j], query[j])

\* C17: for a non-blank query the result list is exactly the stations, in the
\* order of the station list, whose name or location contains the query as a
\* substring, case ignored.
C17_ResultsAreMatchesInOrder ==
  ~BlankQuery(searchQuery) =>
     LET hits == {i \in 1..Len(stations) :
                    \/ ContainsIgnoringCase(stations[i].name, searchQuery)
                    \/ ContainsIgnoringCase(stations[i].location, searchQuery)}
     IN  /\ Len(filteredStations) = Cardinality(hits)
         /\ \A i \in hits :
               filteredStations[Cardinality({j \in hits : j <= i})] = stations[i]

\* "Ca" typed against the catalog: every location ends in ", CA", and so
\* every station is listed, in catalog order
C17_Witness ==
  /\ searchQuery = <<"C", "a">>
  /\ stations = MOCK_STATIONS
  /\ filteredStations = MOCK_STATIONS

\* C18: the reduced-motion preference is queried once per mount: the query
\* never becomes pending again, isReducedMotionEnabled changes only when the
\* one query resolves (so at most once, from false to true), and it never
\* goes back from true to false.
C18_PreferenceSetAtMostOnce ==
  [][/\ isReducedMotionEnabled => isReducedMotionEnabled'
     /\ a11yQuery = "resolved" => a11yQuery' = "resolved"
     /\ isReducedMotionEnabled' # isReducedMotionEnabled =>
           /\ a11yQuery = "pending" /\ a11yQuery' = "resolved"
           /\ ~isReducedMotionEnabled /\ isReducedMotionEnabled'
           /\ mounted]_vars

\* the preference came back enabled, and renders and frames have followed
C18_Witness ==
  /\ mounted /\ isReducedMotionEnabled /\ a11yQuery = "resolved"
  /\ last.op = "frame" /\ levelSets > 0

\* the decorative loops as the specification states them: the values a channel
\* travels to, leg by leg, and the seconds a leg takes
SpecTurns(ch) ==
  IF ch = "bottomEdgeAnim" THEN <<1000, -1000, 0>> ELSE <<1000, 0>>

SpecLegSeconds(ch) ==
  CASE ch = "wave1Anim" -> 8 [] ch = "wave2Anim" -> 10
    [] ch = "wave3Anim" -> 12 [] ch = "wave4Anim" -> 14
    [] ch = "bottomEdgeAnim" -> 3

\* mounted with motion enabled
MotionOn == mounted /\ ~isReducedMotionEnabled

\* one frame of channel ch while motion is on: the loop runs; a leg that has
\* had its seconds ends exactly on its turning value and hands over to the
\* next leg of the cycle (the last to the first); otherwise the leg goes on,
\* short of its seconds, the value between the turning values of the leg
C19_LegStep(ch) ==
  LET l     == loopState[ch]
      turns == SpecTurns(ch)
      ms    == 1000 * SpecLegSeconds(ch)
      start == IF l.leg = 1 THEN 0 ELSE turns[l.leg - 1]
      lo    == IF start < turns[l.leg] THEN start ELSE turns[l.leg]
      hi    == IF start < turns[l.leg] THEN turns[l.leg] ELSE start
  IN  /\ l.running /\ loopState'[ch].running
      /\ l.leg \in 1..Len(turns)
      /\ IF l.elapsed + FrameMs >= ms
           THEN /\ animValue'[ch] = turns[l.leg]
                /\ loopState'[ch].leg = (l.leg % Len(turns)) + 1
                /\ loopState'[ch].elapsed = 0
           ELSE /\ loopState'[ch].leg = l.leg
                /\ loopState'[ch].elapsed = l.elapsed + FrameMs
                /\ animValue'[ch] >= lo /\ animValue'[ch] <= hi
                /\ animValue'[ch] # turns[l.leg]

\* C19: while the background is mounted with motion enabled, each wave
\* channel goes 0 to 1 and back 1 to 0 with legs of 8, 10, 12 and 14 seconds,
\* the wobble 0 to 1 to -1 to 0 with legs of 3 seconds; no loop ends on its
\* own, and every channel comes to each of its turning values again and again.
C19_LoopsRepeatForever ==
  /\ []((MotionOn => \A ch \in DecorChannels : loopState[ch].running))
  /\ [][(MotionOn /\ MotionOn' /\ last'.op = "frame") =>
          \A ch \in DecorChannels : C19_LegStep(ch)]_vars
  /\ \A ch \in DecorChannels :
        /\ []<>(~MotionOn \/ animValue[ch] = 1000)
        /\ []<>(~MotionOn \/ animValue[ch] = 0)
  /\ []<>(~MotionOn \/ animValue["bottomEdgeAnim"] = -1000)

\* the slowest wave is on its way back down in its second cycle while the
\* wobble is at its trough
C19_Witness ==
  /\ MotionOn /\ a11yQuery = "resolved"
  /\ loopState["wave4Anim"].leg = 2
  /\ loopState["wave1Anim"].leg = 1
  /\ loopState["wave1Anim"].elapsed = 4 * FrameMs
  /\ animValue["wave1Anim"] > 0
  /\ animValue["bottomEdgeAnim"] = -1000

\* the target of the water-level channel: the level its newest timing runs
\* to, or the value it rests at
WaterTarget(value, timings) ==
  IF timings = <<>> THEN value ELSE timings[Len(timings)].to

\* C20: a render with another tideLevel neither stops nor restarts a
\* decorative loop nor changes a decorative channel's value; and a frame in
\* which decorative loops progress leaves the tideLevel and the target of the
\* water-level channel as they are, and its value too once it rests.
C20_WaterAndDecorIndependent ==
  [][/\ last'.op = "setTideLevel" =>
           animValue' = animValue /\ loopState' = loopState
     /\ (last'.op = "frame" /\ animValue' # animValue) =>
           /\ tideLevel' = tideLevel
           /\ WaterTarget(waterHeightAnim', waterTimings') =
                 WaterTarget(waterHeightAnim, waterTimings)
           /\ waterTimings = <<>> => waterHeightAnim' = waterHeightAnim]_vars

\* the level has just changed while the loops are under way, the fastest
\* wave part of the way up and still running as before
C20_Witness ==
  /\ mounted /\ ~isReducedMotionEnabled
  /\ last.op = "setTideLevel" /\ last.prevLevel # tideLevel
  /\ loopState["wave1Anim"].running
  /\ loopState["wave1Anim"].elapsed = 3 * FrameMs
  /\ animValue["wave1Anim"] > 0 /\ animValue["wave1Anim"] < 1000
  /\ animValue["bottomEdgeAnim"] = 1000

\* values of a channel between 0 and 1, in thousandths
ChannelSamples == {0, 250, 500, 750, 1000}

\* C21: at every tide level of 20 or more and every value of the lightest
\* layer's channel in [0,1], the layer's top edge (45% of H less the amplitude
\* 30) moved up by its translation, which is at most 15% of the water depth,
\* stays at a positive y, for the window heights 200 and above.
C21_LightestLayerBelowTop ==
  (mounted /\ tideLevel >= 20) =>
     \A H \in Heights :
        \A v \in ChannelSamples \cup {animValue["wave1Anim"]} :
           LET up == -waveTranslateY("wave1Anim", H, tideLevel, v)
           IN  /\ H >= 200
               /\ up >= 0
               /\ up <= 15 * SpecDepth(H, tideLevel)
               /\ (45 * H * 1000 - 30 * 100000) - up > 0
               /\ waveTopEdge("wave1Anim", H) - up > 0

\* full tide on the smallest window with the lightest layer at the top of
\* its travel: 30 pixels of the 200 are left above it
C21_Witness ==
  /\ mounted /\ tideLevel = 100 /\ animValue["wave1Anim"] = 1000
  /\ waveTopEdge("wave1Anim", 200)
       + waveTranslateY("wave1Anim", 200, tideLevel, animValue["wave1Anim"])
     = 30 * 100000

\* C22: every wave channel lies in [0,1] and the wobble channel in [-1,1]
\* (thousandths), so the bottom-edge translation is within 5% of H either
\* way and every layer's offset lies between 0 and its maximum travel, at
\* every window height and level.
C22_ChannelsInRange ==
  /\ \A ch \in WaveChannels : animValue[ch] >= 0 /\ animValue[ch] <= 1000
  /\ animValue["bottomEdgeAnim"] >= -1000
  /\ animValue["bottomEdgeAnim"] <= 1000
  /\ \A H \in Heights :
        /\ bottomEdgeTranslateY(H, animValue["bottomEdgeAnim"]) >= -(5 * H * 1000)
        /\ bottomEdgeTranslateY(H, animValue["bottomEdgeAnim"]) <= 5 * H * 1000
        /\ \A ch \in WaveChannels : \A L \in Levels :
              /\ waveTranslateY(ch, H, L, animValue[ch]) <= 0
              /\ waveTranslateY(ch, H, L, animValue[ch])
                    >= waveMaxTranslation(ch, H, L)

\* the slowest wave at the top of its travel in its second cycle while the
\* wobble is at its trough, 5% of H up
C22_Witness ==
  /\ mounted /\ ~isReducedMotionEnabled
  /\ animValue["wave4Anim"] = 1000
  /\ animValue["bottomEdgeAnim"] = -1000
  /\ bottomEdgeTranslateY(844, animValue["bottomEdgeAnim"]) = -(5 * 844 * 1000)
  /\ waveTranslateY("wave4Anim", 844, tideLevel, animValue["wave4Anim"])
       = waveMaxTranslation("wave4Anim", 844, tideLevel)

\* C23: with levels within [0,100] only, whenever level changes arrive, the
\* water channel's value lies between the value it had when the current
\* transition started and the current target (and rests on the target when
\* no transition runs), so the projected boundary is within 20% and 100% of H
\* in every state; and at mount the channel holds the initial level: there is
\* no first transition up from 0.
C23_WaterBetweenStartAndTarget ==
  /\ waterTimings # <<>> =>
        LET t  == waterTimings[Len(waterTimings)]
            lo == IF t.from < t.to THEN t.from ELSE t.to
            hi == IF t.from < t.to THEN t.to ELSE t.from
        IN  /\ Len(waterTimings) = 1
            /\ waterHeightAnim >= lo /\ waterHeightAnim <= hi
            /\ mounted => t.to = tideLevel * 1000
  /\ (mounted /\ waterTimings = <<>>) => waterHeightAnim = tideLevel * 1000
  /\ \A H \in Heights :
        /\ waterHeight(H, waterHeightAnim) >= 200000 * H
        /\ waterHeight(H, waterHeightAnim) <= 1000000 * H
  /\ last.op = "mount" => waterHeightAnim = initialTideLevel * 1000

\* a transition that began at a value no level names, the channel having
\* been caught on its way by a level change, and is itself under way
C23_Witness ==
  /\ mounted /\ last.op = "frame" /\ waterTimings # <<>>
  /\ waterTimings[1].from \notin {L * 1000 : L \in Levels}
  /\ waterTimings[1].elapsed > 0
  /\ waterHeightAnim # waterTimings[1].from
  /\ waterHeightAnim # waterTimings[1].to

\* C24: the water depth that scales every layer's travel is the depth of the
\* target tideLevel, H*(0.2+0.8*target/100), from the very step of the level
\* change on, while the projected boundary stays where it is in that step
\* and reaches the target only when the 2000 ms transition ends; during a
\* transition the travel scale is not the projected boundary.
C24_TravelDepthFollowsTarget ==
  /\ [](mounted =>
          \A H \in Heights :
             /\ actualWaterHeight(H, tideLevel) = SpecDepth(H, tideLevel)
             /\ -waveMaxTranslation("wave1Anim", H, tideLevel) =
                   (IF tideLevel < 20 THEN 50 ELSE 15) * SpecDepth(H, tideLevel)
             /\ -waveMaxTranslation("wave2Anim", H, tideLevel) =
                   40 * SpecDepth(H, tideLevel)
             /\ (waterTimings # <<>> /\ waterHeightAnim # tideLevel * 1000) =>
                   /\ waterTimings[Len(waterTimings)].elapsed < 2000
                   /\ waterHeight(H, waterHeightAnim) #
                         1000 * actualWaterHeight(H, tideLevel))
  /\ [][(last'.op = "setTideLevel" /\ tideLevel' # tideLevel) =>
          /\ waterHeightAnim' = waterHeightAnim
          /\ \A H \in Heights :
                /\ actualWaterHeight(H, tideLevel') # actualWaterHeight(H, tideLevel)
                /\ actualWaterHeight(H, tideLevel') = SpecDepth(H, tideLevel')
                /\ waterHeight(H, waterHeightAnim') =
                      waterHeight(H, waterHeightAnim)]_vars

\* half way through the transition from level 0 to level 100: the boundary
\* is at 60% of H while the travel depth is already the whole of H
C24_Witness ==
  /\ mounted /\ last.op = "frame" /\ waterTimings # <<>>
  /\ initialTideLevel = 0 /\ tideLevel = 100
  /\ waterHeight(844, waterHeightAnim) = 600000 * 844
  /\ actualWaterHeight(844, tideLevel) = 1000 * 844

\* C25: the level the home screen passes to the background is within
\* [0,100] in every state, whatever texts (empty, valid, out of range,
\* negative, not a number) were typed and whatever stations were selected.
C25_DisplayLevelInRange ==
  displayTideLevel >= 0 /\ displayTideLevel <= 100

\* the override is on and the text has since become 111: 100 is passed
C25_Witness ==
  /\ useTestTide
  /\ testTideLevel = <<"1", "1", "1">>
  /\ displayTideLevel = 100
  /\ currentStation # "1"

\* a text that parses to an integer within [0,100]
ValidLevelText(text) ==
  ~ParseInt(text).nan /\ ParseInt(text).value >= 0 /\ ParseInt(text).value <= 100

\* C26: useTestTide becomes true only on a text that parses to an integer in
\* [0,100], becomes false only when the text is emptied, and is left as it
\* is by any other text; so useTestTide implies a non-empty text.
C26_OverrideFlagTransitions ==
  /\ [](useTestTide => testTideLevel # <<>>)
  /\ [][/\ (~useTestTide /\ useTestTide') => ValidLevelText(testTideLevel')
        /\ (useTestTide /\ ~useTestTide') => testTideLevel' = <<>>
        /\ (testTideLevel' # <<>> /\ ~ValidLevelText(testTideLevel')) =>
              useTestTide' = useTestTide]_vars

\* the override is still on after the valid text 1 was edited into -1
C26_Witness ==
  /\ useTestTide
  /\ testTideLevel = <<"-", "1">>
  /\ ~ValidLevelText(testTideLevel)

\* C27: a tap on a search result calls onStationSelect exactly once, with the
\* tapped station, empties the query and sets isSearching to false, after
\* which the dropdown is hidden and the current-station label is shown; and
\* the dropdown and the label are never shown together.
C27_ResultTap ==
  /\ [](~(resultsShown /\ currentStationShown))
  /\ [][(last'.op = "pressResult" /\ resultsShown) =>
          /\ last'.row \in 1..Len(filteredStations)
          /\ last'.calls = <<filteredStations[last'.row].id>>
          /\ currentStation' = filteredStations[last'.row].id
          /\ searchQuery' = <<>>
          /\ ~isSearching'
          /\ ~resultsShown'
          /\ currentStationShown']_vars

\* the second of the two stations found by "m" (Monterey Bay, row 2 of Santa
\* Monica Pier and Monterey Bay) was tapped and is the current station
C27_Witness ==
  /\ last.op = "pressResult"
  /\ stations = MOCK_STATIONS
  /\ last.row = 2
  /\ last.calls = <<"5">>
  /\ currentStation = "5"
  /\ searchQuery = <<>> /\ currentStationShown /\ ~resultsShown

\* C28: while the search input has the focus and neither the clear button
\* nor a result has been pressed since it gained it, isSearching is true,
\* under every interleaving of focus, blur, typing and the blur timers.  Step
\* by step: gaining the focus sets isSearching, and while the input keeps
\* the focus no step but a press of clear or of a result takes it away.
C28_FocusedMeansSearching ==
  [][/\ (~inputFocused /\ inputFocused') => isSearching'
     /\ (inputFocused /\ inputFocused' /\ isSearching
           /\ last'.op \notin {"pressClear", "pressResult"}) => isSearching']_vars

\* C29: selecting the station that is already the current one leaves
\* currentStation and tideData as they are: the station effect does not
\* become due and no reading is generated (a reading changes only in a step
\* of the effect), so the reading's timestamp, level and tide events remain
\* those of the last real switch or of the mount.
C29_SameStationNoOp ==
  /\ [][(last'.op = "handleStationSelect" /\ ~stationEffectPending
           /\ last'.prevStation = currentStation') =>
          /\ currentStation' = currentStation
          /\ ~stationEffectPending'
          /\ tideData' = tideData
          /\ tideData'.timestamp = tideData.timestamp
          /\ tideData'.tideLevel = tideData.tideLevel
          /\ tideData'.currentTideEvent = tideData.currentTideEvent
          /\ tideData'.nextTideEvent = tideData.nextTideEvent]_vars
  /\ [][tideData' # tideData => (stationEffectPending /\ ~stationEffectPending')]_vars

\* station 3 was selected and read, the clock moved on, and station 3 was
\* selected again: the reading is still the one of the earlier time
C29_Witness ==
  /\ last.op = "handleStationSelect" /\ last.prevStation = currentStation
  /\ ~stationEffectPending
  /\ currentStation = "3" /\ tideData.stationId = "3"
  /\ clockSteps >= 1 /\ tideData.timestamp # clock
  /\ tideData # getMockTideData(currentStation, clock)

====
